---- MODULE Spec2Model ----
(***************************************************************************)
(* Model of the restore-in-place and clone-from-backup workflows of the    *)
(* local-addon-backups main process (RestoreService / CloneService).       *)
(*                                                                         *)
(* One action of the model is one synchronous run of JavaScript: a call of *)
(* an entry point, or the handling of the settlement of the promise of the *)
(* invoked step (the xstate interpreter's send -> update -> execute        *)
(* actions -> onTransition listeners -> onDone/onStop listeners chain runs *)
(* to completion before anything else can happen).  Events sent with       *)
(* sendIPCEvent are fire-and-forget: the host handles them later, in its   *)
(* own actions.                                                            *)
(***************************************************************************)
EXTENDS Integers, Sequences, FiniteSets, TLC

\* ---------------------------------------------------------------- bounds
\* Number of entry-point calls (restoreFromBackup / cloneFromBackup) made.
MaxCalls == 2
\* Number of getEnabledProvidersHub requests the renderer dispatches.
MaxRequests == 2

\* ------------------------------------------------------------- constants
\* serviceState.inProgressStateMachine === null
NoMachine == 0
\* A context field / site reference that is undefined or null.
NoSite == 0
NoDir == 0
Undefined == "undefined"
Null == "null"

CallIds == 1 .. MaxCalls

\* The sites that exist before any clone is made.
BaseSites == {1}
\* shortid.generate(): a fresh id per clone run.
DestId(c) == 10 + c
SiteIds == BaseSites \cup {DestId(c) : c \in CallIds}

NoName == ""
\* Names a caller may pass as newSiteName.
Names == {"blog", "Shop"}
BaseSiteName(s) == "Blog"

\* Rejection values of the external collaborators.  The machines pass the
\* value on without looking at it, so one value (next to
\* siteDomainTakenError, which the clone throws itself) stands for all.
Errors == {"E1"}
siteDomainTakenError == "Site name is already taken by another site!"

\* formatSiteNicename: the filesystem- and domain-safe form of a name.
formatSiteNicename(n) ==
    CASE n = "Blog" -> "blog"
      [] n = "blog" -> "blog"
      [] n = "Shop" -> "shop"
      [] OTHER -> n

\* ----------------------------------------------------------------- state
VARIABLES
    slot,          \* serviceState.inProgressStateMachine (NoMachine or a call id)
    nextCall,      \* number of entry-point calls made so far
    warnings,      \* number of logger.warn lines written by the entry points
    variantOf,     \* per call: "none", "restore" or "clone" once a machine exists
    status,        \* per call: interpreter status "notStarted" | "running" | "stopped"
    mstate,        \* per call: state.value of the machine
    ctx,           \* per call: the machine context
    running,       \* per call: set of invoked services whose promise is pending
    invoked,       \* per call: sequence of the services invoked so far
    resolvedSteps, \* per call: sequence of the services that resolved
    acts,          \* per call: sequence of the named actions executed
    stops,         \* per call: number of times the onStop listener ran
    unhandled,     \* calls whose removeTmpDir threw (a rejection nobody handles)
    slotAtCompleted, \* per call: the slot when its BACKUP_COMPLETED was sent
    slotAtStart,   \* per call: the slot when its interpreter was started
    result,        \* per call: the promise returned to the caller
    ipc,           \* sequence of the events sent with sendIPCEvent
    registry,      \* siteData: site id -> name (NoName when not registered)
    tmpDirs,       \* staging directories present on disk
    siteDirs,      \* destination sites whose path holds copied files
    restarting,    \* sites with a siteProcessManager.restart still in flight
    restarts,      \* per call: restarts requested by the run's recovery action
    deleteQ,       \* sites of 'deleteSite' events the host has not handled yet
    siteStatus,    \* siteProcessManager.getSiteStatus per base site
    rejectedSteps, \* per call: sequence of the services that rejected
    rejection,     \* per call: the value the rejected service rejected with
    dumps,         \* staging directories that hold app/sql/<backupSQLDumpFile>
    sqlMode,       \* per site: the global SQL mode of its database server
    db,            \* per site: what its database holds
    sqlLog,        \* sequence of the queries and imports issued, with their run
    siteFiles,     \* per base site: the top-level entries of its directory
    itemsToDelete, \* per call: what getFilteredSiteFiles returned to the run
    removals,      \* per call: the entries whose fs.remove is still in flight
    providers,     \* the state of the renderer's providers slice
    hubRequests,   \* per getEnabledProvidersHub request: its lifecycle stage
    lastAction     \* type of the last action the providers reducer handled

machineVars == <<variantOf, status, mstate, ctx, running, invoked, resolvedSteps, acts, stops,
                 unhandled, slotAtCompleted, slotAtStart>>
diskVars == <<registry, tmpDirs, siteDirs>>
hostVars == <<restarting, restarts, deleteQ, siteStatus>>
dbVars == <<dumps, sqlMode, db, sqlLog>>
fsVars == <<siteFiles, itemsToDelete, removals>>
storeVars == <<providers, hubRequests, lastAction>>
workflowVars == <<slot, nextCall, warnings, machineVars, rejectedSteps, rejection, result, ipc, diskVars,
                  hostVars, dbVars, fsVars>>
vars == <<workflowVars, storeVars>>

\* ------------------------------------------------------ promise values
Pending == [st |-> "pending", val |-> Undefined, err |-> Undefined]
NotCalled == [st |-> "notCalled", val |-> Undefined, err |-> Undefined]
\* resolve(undefined) / resolve(null) / resolve({ error })
ResolvedWith(v, e) == [st |-> "resolved", val |-> v, err |-> e]

\* JavaScript truthiness of a context.error-like value.
Truthy(x) == x \notin {Undefined, Null}

\* ------------------------------------------------------- machine tables
RestoreOrder == <<"getCredentials", "createTmpDir", "restoreBackup",
                  "moveSiteFromTmpDir", "importDatabase">>
CloneOrder == <<"getCredentials", "setupDestinationSite", "createTmpDir",
                "cloneBackup", "moveSiteFromTmpDir", "provisionSite",
                "importDatabase", "searchReplace">>

InitialState == "gettingBackupCredentials"

IsFinal(s) == s \in {"finished", "failed"}

\* invoke.src of each state of restoreMachine.
RestoreSrc(s) ==
    CASE s = "gettingBackupCredentials" -> "getCredentials"
      [] s = "creatingTmpDir" -> "createTmpDir"
      [] s = "restoringBackup" -> "restoreBackup"
      [] s = "movingSiteFromTmpDir" -> "moveSiteFromTmpDir"
      [] s = "restoringDatabase" -> "importDatabase"

\* Mutant: the filesystem apply and the database apply swapped.
RestoreOnDoneSwapped(s) ==
    CASE s = "gettingBackupCredentials" -> "creatingTmpDir"
      [] s = "creatingTmpDir" -> "restoringBackup"
      [] s = "restoringBackup" -> "restoringDatabase"
      [] s = "restoringDatabase" -> "movingSiteFromTmpDir"
      [] s = "movingSiteFromTmpDir" -> "finished"

\* Mutant: the snapshot transfer is invoked again after it resolved.
RestoreOnDoneRetrying(s) ==
    CASE s = "gettingBackupCredentials" -> "creatingTmpDir"
      [] s = "creatingTmpDir" -> "restoringBackup"
      [] s = "restoringBackup" -> "restoringBackup"
      [] s = "movingSiteFromTmpDir" -> "restoringDatabase"
      [] s = "restoringDatabase" -> "finished"

\* invoke.onDone.target of each state of restoreMachine.
RestoreOnDone(s) ==
    CASE s = "gettingBackupCredentials" -> "creatingTmpDir"
      [] s = "creatingTmpDir" -> "restoringBackup"
      [] s = "restoringBackup" -> "movingSiteFromTmpDir"
      [] s = "movingSiteFromTmpDir" -> "restoringDatabase"
      [] s = "restoringDatabase" -> "finished"

\* invoke.src of each state of cloneMachine.
CloneSrc(s) ==
    CASE s = "gettingBackupCredentials" -> "getCredentials"
      [] s = "setupDestinationSite" -> "setupDestinationSite"
      [] s = "creatingTmpDir" -> "createTmpDir"
      [] s = "cloningBackup" -> "cloneBackup"
      [] s = "movingSiteFromTmpDir" -> "moveSiteFromTmpDir"
      [] s = "provisioningSite" -> "provisionSite"
      [] s = "restoringDatabase" -> "importDatabase"
      [] s = "searchReplaceDomain" -> "searchReplace"

\* Mutant: restoringDatabase goes to 'finished', skipping the domain rewrite.
CloneOnDoneSkipping(s) ==
    CASE s = "gettingBackupCredentials" -> "setupDestinationSite"
      [] s = "setupDestinationSite" -> "creatingTmpDir"
      [] s = "creatingTmpDir" -> "cloningBackup"
      [] s = "cloningBackup" -> "movingSiteFromTmpDir"
      [] s = "movingSiteFromTmpDir" -> "provisioningSite"
      [] s = "provisioningSite" -> "restoringDatabase"
      [] s = "restoringDatabase" -> "finished"
      [] s = "searchReplaceDomain" -> "finished"

\* invoke.onDone.target of each state of cloneMachine.
CloneOnDone(s) ==
    CASE s = "gettingBackupCredentials" -> "setupDestinationSite"
      [] s = "setupDestinationSite" -> "creatingTmpDir"
      [] s = "creatingTmpDir" -> "cloningBackup"
      [] s = "cloningBackup" -> "movingSiteFromTmpDir"
      [] s = "movingSiteFromTmpDir" -> "provisioningSite"
      [] s = "provisioningSite" -> "restoringDatabase"
      [] s = "restoringDatabase" -> "searchReplaceDomain"
      [] s = "searchReplaceDomain" -> "finished"

Src(v, s) == IF v = "restore" THEN RestoreSrc(s) ELSE CloneSrc(s)
OnDoneTarget(v, s) == IF v = "restore" THEN RestoreOnDone(s) ELSE CloneOnDone(s)

\* onErrorFactory() of the restore machine.
RestoreOnErrorActions == <<"setErrorOnContext", "logError", "setErroredStatus">>
\* onBaseSiteErrorFactory() of the clone machine.
onBaseSiteErrorFactory == <<"setErrorOnContext", "logError", "setErroredBaseSite">>
\* onErrorFactory() of the clone machine.
onErrorFactory == <<"setErrorOnContext", "logError", "setErroredStatus">>

\* Mutant: every state of cloneMachine uses onErrorFactory().
CloneOnErrorAlwaysRollback(s) == onErrorFactory

\* Mutant: every state of cloneMachine uses onBaseSiteErrorFactory().
CloneOnErrorNeverRollback(s) == onBaseSiteErrorFactory

\* invoke.onError of each state of cloneMachine.
CloneOnErrorActions(s) ==
    IF s \in {"gettingBackupCredentials", "setupDestinationSite"}
    THEN onBaseSiteErrorFactory
    ELSE onErrorFactory

OnErrorActions(v, s) ==
    IF v = "restore" THEN RestoreOnErrorActions ELSE CloneOnErrorActions(s)

\* Mutant: 'finished' has no entry action.
EntryActionsNone(s) == <<>>

\* Mutant: 'failed' cleans the staging directory up as 'finished' does.
EntryActionsAlsoOnFailed(s) == IF IsFinal(s) THEN <<"removeTmpDir">> ELSE <<>>

\* entry actions of a state: only 'finished' has one.
EntryActions(s) == IF s = "finished" THEN <<"removeTmpDir">> ELSE <<>>

\* ------------------------------------------------------------ contexts
\* The context of a machine that does not exist (yet).
NoContext ==
    [site |-> NoSite, baseSite |-> NoSite, destinationSite |-> NoSite,
     initialSiteStatus |-> Undefined, provider |-> Undefined,
     snapshotID |-> Undefined, newSiteName |-> NoName,
     encryptionPassword |-> Undefined, backupSiteID |-> Undefined,
     localBackupRepoID |-> Undefined, tmpDirData |-> NoDir, error |-> Undefined]

\* restoreMachine.withContext({ site, provider, snapshotID, initialSiteStatus })
RestoreContext(site, initialSiteStatus) ==
    [NoContext EXCEPT !.site = site, !.provider = "drive",
                      !.snapshotID = "snap", !.initialSiteStatus = initialSiteStatus]

\* cloneMachine.withContext({ baseSite, provider, snapshotHash, newSiteName })
CloneContext(baseSite, newSiteName) ==
    [NoContext EXCEPT !.baseSite = baseSite, !.provider = "drive",
                      !.snapshotID = "snap", !.newSiteName = newSiteName]

\* ------------------------------------------------------------ IPC events
Event(type, site, arg, c) == [type |-> type, site |-> site, arg |-> arg, run |-> c]

BACKUP_STARTED(c) == Event("BACKUP_STARTED", NoSite, "", c)
BACKUP_COMPLETED(c) == Event("BACKUP_COMPLETED", NoSite, "", c)

\* ------------------------------------------------------------ the guard
\* Mutant: the guard is missing.
SlotNeverOccupied == FALSE

\* if (serviceState.inProgressStateMachine) { logger.warn(...); return; }
SlotOccupied == slot # NoMachine

\* Where a statement stands in a sequence of statements.
Position(statements, x) == CHOOSE i \in 1 .. Len(statements) : statements[i] = x

\* ------------------------------------------- the end of the entry point
\* Mutant: the interpreter is started before it is put in the slot.
EntryStatementsStartFirst == <<"start", "setSlot">>

\* The last two statements of the promise executor of an entry point.
EntryStatements == <<"setSlot", "start">>

\* What the slot holds when start() invokes the service of the initial
\* state, for the machine of call c.
SlotWhenStarted(c) ==
    IF Position(EntryStatements, "setSlot") < Position(EntryStatements, "start")
    THEN c
    ELSE slot

\* ------------------------------------------------------ the stop handler
\* Mutant: the stop handler leaves the slot as it is.
OnStopSlotKept == slot

\* serviceState.inProgressStateMachine = null;
OnStopSlot == NoMachine

\* Mutant: the stop listener sends BACKUP_COMPLETED before it clears the slot.
OnStopStatementsSendFirst == <<"sendCompleted", "clearSlot", "readError", "resolve">>

\* The statements of the stop listener, in the order it executes them.
OnStopStatements == <<"clearSlot", "readError", "sendCompleted", "resolve">>

\* What the slot holds when the listener sends BACKUP_COMPLETED.
SlotWhenCompletedSent ==
    IF Position(OnStopStatements, "clearSlot") < Position(OnStopStatements, "sendCompleted")
    THEN OnStopSlot
    ELSE slot

\* const { error } = service._state: the interpreter's State object carries
\* value, context, event, ... and no property named error, so this reads
\* undefined whatever context.error holds.
StateError(cx) == Undefined

\* Mutant: the promise is resolved only when there is an error.
OnStopResolveOnlyOnError(r, error) ==
    IF Truthy(error) THEN ResolvedWith("errorObj", error) ELSE r

\* Mutant: resolve() in place of resolve(null).
OnStopResolveNothing(r, error) ==
    IF Truthy(error) THEN ResolvedWith("errorObj", error)
    ELSE ResolvedWith(Undefined, Undefined)

\* if (error) { resolve({ error }); }  resolve(null);
\* (a second resolve of a settled promise does nothing)
OnStopResolve(r, error) ==
    IF Truthy(error) THEN ResolvedWith("errorObj", error)
    ELSE ResolvedWith(Null, Undefined)

\* --------------------------------------------------------- the registry
Registered == {s \in SiteIds : registry[s] # NoName}

\* checkForDuplicateSiteName(newSiteName, formattedSiteName): the name
\* collides, in its normalized form, with the name of a registered site.
checkForDuplicateSiteName(newSiteName, formattedSiteName) ==
    \E s \in Registered : formatSiteNicename(registry[s]) = formattedSiteName

\* Mutant: the duplicate is reported and the step goes on.
NeverThrowsOnDuplicate(duplicateSiteName) == FALSE

\* if (duplicateSiteName) { dialog.showErrorBox(...); throw new Error(...); }
ThrowsOnDuplicate(duplicateSiteName) == duplicateSiteName

\* --------------------------------------------------------- the database
\* A global SQL mode is a set of mode names.  The one a site's server has
\* before any import, and the one importDatabase sets for the import.
DefaultSqlMode == {"STRICT_TRANS_TABLES", "NO_ENGINE_SUBSTITUTION"}
PermissiveSqlMode == {"NO_AUTO_VALUE_ON_ZERO"}
\* The order in which the server lists the names of a mode.
ModeOrder == <<"NO_AUTO_VALUE_ON_ZERO", "STRICT_TRANS_TABLES", "NO_ENGINE_SUBSTITUTION">>

\* Mutant: the dump is imported before the database is dropped and recreated.
ImportOpsImportBeforeDrop ==
    <<"SELECT @@SQL_MODE", "SET GLOBAL SQL_MODE=NO_AUTO_VALUE_ON_ZERO",
      "importSQLFile", "DROP DATABASE; CREATE DATABASE",
      "SET GLOBAL SQL_MODE=existingSqlMode">>

\* The queries and the import of importDatabase, in the order it awaits them.
ImportOps == <<"SELECT @@SQL_MODE", "SET GLOBAL SQL_MODE=NO_AUTO_VALUE_ON_ZERO",
               "DROP DATABASE; CREATE DATABASE", "importSQLFile",
               "SET GLOBAL SQL_MODE=existingSqlMode">>

SqlOp(c, op) == [run |-> c, op |-> op]

\* new LocalSiteModel(context.site) / new LocalSiteModel(context.destinationSite)
DatabaseSite(v, cx) == IF v = "restore" THEN cx.site ELSE cx.destinationSite

\* Mutant: the mode is read after the permissive mode has been set.
SelectSqlModeAfterSet(site) == SelectSeq(ModeOrder, LAMBDA m : m \in PermissiveSqlMode)

\* existingSqlMode: the answer to SELECT @@SQL_MODE, read before the mode is
\* set: the list of the names of the site's mode.
SelectSqlMode(site) == SelectSeq(ModeOrder, LAMBDA m : m \in sqlMode[site])

\* SET GLOBAL SQL_MODE='${existingSqlMode}': the server's mode becomes the
\* set of the names listed between the quotes.
SetSqlMode(existingSqlMode) == {existingSqlMode[i] : i \in 1 .. Len(existingSqlMode)}

\* Mutant: the import is attempted whether or not the dump exists.
NeverSkipsImport(dir) == FALSE

\* if (!fs.existsSync(sqlFile)) { logger.warn(...); return; }
SkipsImport(dir) == dir \notin dumps

\* How many of ImportOps importDatabase issues when nothing fails.
IssuedOps(dir) == IF SkipsImport(dir) THEN 0 ELSE Len(ImportOps)

\* ------------------------------------------------------ the site files
\* A top-level entry of a site directory: its name, split into the leading
\* dot (if any) and the rest.
Entry(dot, name) == [dot |-> dot, name |-> name]
NoEntry == Entry(FALSE, "")
\* localBackupsIgnoreFileName, which getIgnoreFilePath copies into the site
localBackupsIgnoreFile == Entry(TRUE, "localbackupaddonignore")
EntryNames == {Entry(FALSE, "app"), Entry(FALSE, "conf"), localBackupsIgnoreFile}
\* What a site directory holds when the first workflow starts: a site that
\* has been backed up has its app and conf directories and the ignore file.
SiteListings == {EntryNames}
\* The top-level entries of a restored snapshot.
StagingFiles == {Entry(FALSE, "app")}

excludePatterns == {"conf"}

\* glob `${sitePath}/!(conf)`: the entries that match none of the excluded
\* names; a pattern that does not start with a dot matches no dotfile.
GlobNotExcluded(entries) == {e \in entries : ~e.dot /\ e.name \notin excludePatterns}
\* glob `${sitePath}/.*`: the entries whose name starts with a dot.
GlobDotfiles(entries) == {e \in entries : e.dot}

getFilteredSiteFiles(entries) == GlobNotExcluded(entries) \cup GlobDotfiles(entries)

\* fs.copySync(tmpDirData.name, sitePath): the staged entries are written
\* over the site's.
copySync(staged, entries) == entries \cup staged

\* await Promise.all(promises) has resolved: every removal did.
AllSettled(pending) == pending = {}

\* ------------------------------------------------- effects of the steps
\* Events a service sends before its first suspension point.
InvokeIPC(c, v, src, cx) ==
    IF v = "clone" /\ src = "searchReplace"
    THEN <<Event("updateSiteStatus", cx.destinationSite, "provisioning", c),
           Event("updateSiteMessage", cx.destinationSite, "Changing site domain", c)>>
    ELSE <<>>

\* Events a service has sent by the time it resolves.
ResolveIPC(c, v, src) ==
    IF v = "clone" /\ src = "setupDestinationSite"
    THEN <<Event("selectSite", DestId(c), "", c),
           Event("updateSiteStatus", DestId(c), "provisioning", c),
           Event("updateSiteMessage", DestId(c), "Restoring your site backup", c)>>
    ELSE <<>>

\* Mutant: the onDone of creatingTmpDir does not assign tmpDirData.
OnDoneAssignWithoutTmpDir(c, src, cx) ==
    CASE src = "getCredentials" ->
            [cx EXCEPT !.encryptionPassword = "password",
                       !.backupSiteID = "id", !.localBackupRepoID = "uuid"]
      [] src = "setupDestinationSite" -> [cx EXCEPT !.destinationSite = DestId(c)]
      [] OTHER -> cx

\* Mutant: the onDone of setupDestinationSite does not assign destinationSite.
OnDoneAssignWithoutDestination(c, src, cx) ==
    CASE src = "getCredentials" ->
            [cx EXCEPT !.encryptionPassword = "password",
                       !.backupSiteID = "id", !.localBackupRepoID = "uuid"]
      [] src = "createTmpDir" -> [cx EXCEPT !.tmpDirData = c]
      [] OTHER -> cx

\* Mutant: the onDone of the snapshot transfer assigns the snapshot it restored.
OnDoneAssignByTransfer(c, src, cx) ==
    CASE src = "getCredentials" ->
            [cx EXCEPT !.encryptionPassword = "password",
                       !.backupSiteID = "id", !.localBackupRepoID = "uuid"]
      [] src = "setupDestinationSite" -> [cx EXCEPT !.destinationSite = DestId(c)]
      [] src = "createTmpDir" -> [cx EXCEPT !.tmpDirData = c]
      [] src \in {"restoreBackup", "cloneBackup"} -> [cx EXCEPT !.snapshotID = "restored"]
      [] OTHER -> cx

\* assign(...) of invoke.onDone: the context after the step's data is merged.
\* Only the onDone of getCredentials, setupDestinationSite and createTmpDir
\* have an assign action; the other states' onDone name a target only.
OnDoneAssign(c, src, cx) ==
    CASE src = "getCredentials" ->
            [cx EXCEPT !.encryptionPassword = "password",
                       !.backupSiteID = "id", !.localBackupRepoID = "uuid"]
      [] src = "setupDestinationSite" -> [cx EXCEPT !.destinationSite = DestId(c)]
      [] src = "createTmpDir" -> [cx EXCEPT !.tmpDirData = c]
      [] OTHER -> cx

\* Mutant: the error of the rejected step is not put on the context.
setErrorOnContextDropped(cx, data) == cx

\* Mutant: a failure of the cleanup is put on the context as the run's error.
removeTmpDirSurfacesError(cx, cleanupFails) ==
    IF cleanupFails THEN [cx EXCEPT !.error = "E1"] ELSE cx

\* removeTmpDir is a plain (not an assign) action and an async function: the
\* machine context after it is the context before it, also when
\* emptyDirSync or removeCallback throws.
removeTmpDir(cx, cleanupFails) == cx

\* Mutant: a fixed message is stored in place of the rejection value.
setErrorOnContextMessage(cx, data) == [cx EXCEPT !.error = "Error"]

\* setErrorOnContext: assign({ error: event.data })
setErrorOnContext(cx, data) == [cx EXCEPT !.error = data]

\* Mutant: the restore recovery sends the status the site has now.
ErrorActionIPCCurrentStatus(c, action, cx) ==
    CASE action = "setErroredBaseSite" ->
            <<Event("goToRoute", cx.baseSite, "", c),
              Event("showSiteBanner", cx.baseSite, "site-errored-backup-cloning", c)>>
      [] action = "setErroredStatus" /\ cx.baseSite # NoSite ->
            <<Event("deleteSite", cx.destinationSite, "trashFiles", c),
              Event("goToRoute", cx.baseSite, "", c),
              Event("showSiteBanner", cx.baseSite, "site-errored-backup-cloning", c)>>
      [] OTHER ->
            <<Event("updateSiteStatus", cx.site, siteStatus[cx.site], c),
              Event("showSiteBanner", cx.site, "site-errored-backup", c)>>

\* Events sent by the last action of an onError transition.
ErrorActionIPC(c, action, cx) ==
    CASE action = "setErroredBaseSite" ->
            <<Event("goToRoute", cx.baseSite, "", c),
              Event("showSiteBanner", cx.baseSite, "site-errored-backup-cloning", c)>>
      [] action = "setErroredStatus" /\ cx.baseSite # NoSite ->
            <<Event("deleteSite", cx.destinationSite, "trashFiles", c),
              Event("goToRoute", cx.baseSite, "", c),
              Event("showSiteBanner", cx.baseSite, "site-errored-backup-cloning", c)>>
      [] OTHER ->
            <<Event("updateSiteStatus", cx.site, cx.initialSiteStatus, c),
              Event("showSiteBanner", cx.site, "site-errored-backup", c)>>

Last(q) == q[Len(q)]
Range(q) == {q[i] : i \in 1 .. Len(q)}

\* ------------------------------------------------------ providers slice
\* The renderer's redux slice 'providers'.  Its thunks run independently of
\* the main-process workflows; the slice sees only their lifecycle actions.
RequestIds == 1 .. MaxRequests

\* Payloads of the two activeProviders thunks (site id -> provider id).
ActiveProvidersLookups == {"site1:drive", "site1:dropbox"}
\* Payloads of getEnabledProvidersHub.fulfilled (lists of provider ids).
EnabledProvidersLists == {<<>>, <<"drive">>}

NoAction == "none"
initActiveFulfilled == "initActiveProvidersFromLocalStorage/fulfilled"
getEnabledPending == "getEnabledProvidersHub/pending"
getEnabledFulfilled == "getEnabledProvidersHub/fulfilled"
getEnabledRejected == "getEnabledProvidersHub/rejected"
setActiveFulfilled == "setActiveProviderAndPersist/fulfilled"

initialState ==
    [activeProviders |-> Null,
     enabledProviders |-> <<>>,
     hasErrorLoadingEnabledProviders |-> FALSE,
     isLoadingEnabledProviders |-> FALSE]

\* Mutant: the pending case leaves the error flag of the last load standing.
extraReducersPendingKeepsError(state, type, payload) ==
    CASE type = initActiveFulfilled -> [state EXCEPT !.activeProviders = payload]
      [] type = getEnabledFulfilled ->
            [state EXCEPT !.isLoadingEnabledProviders = FALSE, !.enabledProviders = payload]
      [] type = getEnabledPending -> [state EXCEPT !.isLoadingEnabledProviders = TRUE]
      [] type = getEnabledRejected ->
            [state EXCEPT !.hasErrorLoadingEnabledProviders = TRUE,
                          !.isLoadingEnabledProviders = FALSE]
      [] type = setActiveFulfilled -> [state EXCEPT !.activeProviders = payload]
      [] OTHER -> state

\* Mutant: setActiveProviderAndPersist.fulfilled also ends the loading.
extraReducersSetActiveEndsLoading(state, type, payload) ==
    CASE type = initActiveFulfilled -> [state EXCEPT !.activeProviders = payload]
      [] type = getEnabledFulfilled ->
            [state EXCEPT !.isLoadingEnabledProviders = FALSE, !.enabledProviders = payload]
      [] type = getEnabledPending ->
            [state EXCEPT !.hasErrorLoadingEnabledProviders = FALSE,
                          !.isLoadingEnabledProviders = TRUE]
      [] type = getEnabledRejected ->
            [state EXCEPT !.hasErrorLoadingEnabledProviders = TRUE,
                          !.isLoadingEnabledProviders = FALSE]
      [] type = setActiveFulfilled ->
            [state EXCEPT !.activeProviders = payload, !.isLoadingEnabledProviders = FALSE]
      [] OTHER -> state

\* extraReducers: the slice's case reducers, one per action type.
extraReducers(state, type, payload) ==
    CASE type = initActiveFulfilled -> [state EXCEPT !.activeProviders = payload]
      [] type = getEnabledFulfilled ->
            [state EXCEPT !.isLoadingEnabledProviders = FALSE, !.enabledProviders = payload]
      [] type = getEnabledPending ->
            [state EXCEPT !.hasErrorLoadingEnabledProviders = FALSE,
                          !.isLoadingEnabledProviders = TRUE]
      [] type = getEnabledRejected ->
            [state EXCEPT !.hasErrorLoadingEnabledProviders = TRUE,
                          !.isLoadingEnabledProviders = FALSE]
      [] type = setActiveFulfilled -> [state EXCEPT !.activeProviders = payload]
      [] OTHER -> state

\* ---------------------------------------------------------------- Init
Init ==
    /\ providers = initialState
    /\ hubRequests = [r \in RequestIds |-> "idle"]
    /\ lastAction = NoAction
    /\ slot = NoMachine
    /\ nextCall = 0
    /\ warnings = 0
    /\ variantOf = [c \in CallIds |-> "none"]
    /\ status = [c \in CallIds |-> "notStarted"]
    /\ mstate = [c \in CallIds |-> "none"]
    /\ ctx = [c \in CallIds |-> NoContext]
    /\ running = [c \in CallIds |-> {}]
    /\ invoked = [c \in CallIds |-> <<>>]
    /\ resolvedSteps = [c \in CallIds |-> <<>>]
    /\ acts = [c \in CallIds |-> <<>>]
    /\ stops = [c \in CallIds |-> 0]
    /\ unhandled = {}
    /\ result = [c \in CallIds |-> NotCalled]
    /\ ipc = <<>>
    /\ registry = [s \in SiteIds |-> IF s \in BaseSites THEN BaseSiteName(s) ELSE NoName]
    /\ tmpDirs = {}
    /\ siteDirs = {}
    /\ restarting = {}
    /\ restarts = [c \in CallIds |-> 0]
    /\ deleteQ = {}
    /\ siteStatus = [s \in BaseSites |-> "running"]
    /\ rejectedSteps = [c \in CallIds |-> <<>>]
    /\ rejection = [c \in CallIds |-> Undefined]
    /\ slotAtCompleted = [c \in CallIds |-> Undefined]
    /\ slotAtStart = [c \in CallIds |-> Undefined]
    /\ dumps = {}
    /\ sqlMode = [s \in SiteIds |-> DefaultSqlMode]
    /\ db = [s \in SiteIds |-> IF s \in BaseSites THEN "original" ELSE "none"]
    /\ sqlLog = <<>>
    /\ siteFiles \in [BaseSites -> SiteListings]
    /\ itemsToDelete = [c \in CallIds |-> {}]
    /\ removals = [c \in CallIds |-> {}]

\* --------------------------------------------------------- entry points
\* The call returns at once: the async function resolves with undefined.
AbortedCall(c) ==
    /\ warnings' = warnings + 1
    /\ result' = [result EXCEPT ![c] = ResolvedWith(Undefined, Undefined)]
    /\ UNCHANGED <<slot, machineVars, rejectedSteps, rejection, ipc, diskVars, hostVars, dbVars, fsVars>>

\* new Promise(...): build the machine with its context, interpret it, put
\* the interpreter in the slot and start it.  start() enters the initial
\* state: its service is invoked, then the onTransition listener runs.
StartMachine(c, v, cx) ==
    /\ slot' = c
    /\ slotAtStart' = [slotAtStart EXCEPT ![c] = SlotWhenStarted(c)]
    /\ variantOf' = [variantOf EXCEPT ![c] = v]
    /\ status' = [status EXCEPT ![c] = "running"]
    /\ mstate' = [mstate EXCEPT ![c] = InitialState]
    /\ ctx' = [ctx EXCEPT ![c] = cx]
    /\ running' = [running EXCEPT ![c] = {Src(v, InitialState)}]
    /\ invoked' = [invoked EXCEPT ![c] = <<Src(v, InitialState)>>]
    /\ ipc' = ipc \o InvokeIPC(c, v, Src(v, InitialState), cx) \o <<BACKUP_STARTED(c)>>
    /\ result' = [result EXCEPT ![c] = Pending]
    /\ UNCHANGED <<warnings, resolvedSteps, acts, stops, unhandled, slotAtCompleted,
                   rejectedSteps, rejection, diskVars, hostVars, dbVars, fsVars>>

restoreFromBackup(site) ==
    /\ UNCHANGED storeVars
    /\ nextCall < MaxCalls
    /\ nextCall' = nextCall + 1
    /\ IF SlotOccupied
       THEN AbortedCall(nextCall + 1)
       ELSE StartMachine(nextCall + 1, "restore", RestoreContext(site, siteStatus[site]))

cloneFromBackup(baseSite, newSiteName) ==
    /\ UNCHANGED storeVars
    /\ nextCall < MaxCalls
    /\ nextCall' = nextCall + 1
    /\ IF SlotOccupied
       THEN AbortedCall(nextCall + 1)
       ELSE StartMachine(nextCall + 1, "clone", CloneContext(baseSite, newSiteName))

\* ------------------------------------------------- the interpreter's turn
\* Mutant: stop() is called a second time, and the stop listener runs again.
StopCalledTwice(c, cx) ==
    /\ status' = [status EXCEPT ![c] = "stopped"]
    /\ stops' = [stops EXCEPT ![c] = @ + 2]
    /\ slot' = OnStopSlot
    /\ slotAtCompleted' = [slotAtCompleted EXCEPT ![c] = SlotWhenCompletedSent]
    /\ result' = [result EXCEPT ![c] = OnStopResolve(@, StateError(cx))]

\* onDone(() => service.stop()) and onStop(...): run when the machine has
\* entered a final state, after the actions and the onTransition listener.
Stop(c, cx) ==
    /\ status' = [status EXCEPT ![c] = "stopped"]
    /\ stops' = [stops EXCEPT ![c] = @ + 1]
    /\ slot' = OnStopSlot
    /\ slotAtCompleted' = [slotAtCompleted EXCEPT ![c] = SlotWhenCompletedSent]
    /\ result' = [result EXCEPT ![c] = OnStopResolve(@, StateError(cx))]

\* The turn that handles done.invoke of the pending service.
\* cleanupFails: emptyDirSync / removeCallback of removeTmpDir throws (the
\* action is an async function: the throw becomes a rejected promise that
\* nobody awaits).  hasDump: the snapshot that restoreBackup / cloneBackup
\* put in the staging directory holds a SQL dump.  The restore's
\* moveSiteFromTmpDir starts one fs.remove per filtered entry when it is
\* invoked, and resolves after all of them resolved and copySync returned.
StepResolve(c, cleanupFails, hasDump) ==
    /\ UNCHANGED storeVars
    /\ status[c] = "running"
    /\ running[c] # {}
    /\ LET v == variantOf[c]
           s == mstate[c]
           src == Src(v, s)
           target == OnDoneTarget(v, s)
           cx == OnDoneAssign(c, src, ctx[c])
       IN
       /\ src \in running[c]
       /\ src = "setupDestinationSite" =>
              ~ThrowsOnDuplicate(checkForDuplicateSiteName(cx.newSiteName,
                                                           formatSiteNicename(cx.newSiteName)))
       /\ cleanupFails => "removeTmpDir" \in Range(EntryActions(target))
       /\ hasDump => src \in {"restoreBackup", "cloneBackup"}
       /\ IF v = "restore" /\ src = "moveSiteFromTmpDir"
          THEN /\ AllSettled(removals[c])
               /\ siteFiles' = [siteFiles EXCEPT ![cx.site] = copySync(StagingFiles, @)]
               /\ UNCHANGED <<itemsToDelete, removals>>
          ELSE IF v = "restore" /\ target = "movingSiteFromTmpDir"
          THEN /\ itemsToDelete' = [itemsToDelete EXCEPT
                                       ![c] = getFilteredSiteFiles(siteFiles[cx.site])]
               /\ removals' = [removals EXCEPT ![c] = getFilteredSiteFiles(siteFiles[cx.site])]
               /\ siteFiles' = siteFiles
          ELSE UNCHANGED fsVars
       /\ dumps' = LET restored == IF hasDump THEN dumps \cup {cx.tmpDirData} ELSE dumps
                   IN IF "removeTmpDir" \in Range(EntryActions(target)) /\ ~cleanupFails
                      THEN restored \ {cx.tmpDirData}
                      ELSE restored
       /\ IF src = "importDatabase"
          THEN LET site == DatabaseSite(v, cx)
                   n == IssuedOps(cx.tmpDirData)
               IN /\ sqlLog' = sqlLog \o [i \in 1 .. n |-> SqlOp(c, ImportOps[i])]
                  /\ db' = IF n >= 4 THEN [db EXCEPT ![site] = "dump"] ELSE db
                  /\ sqlMode' = IF n >= 5
                                THEN [sqlMode EXCEPT ![site] = SetSqlMode(SelectSqlMode(site))]
                                ELSE sqlMode
          ELSE /\ db' = IF v = "clone" /\ src = "provisionSite"
                        THEN [db EXCEPT ![cx.destinationSite] = "empty"] ELSE db
               /\ UNCHANGED <<sqlMode, sqlLog>>
       /\ unhandled' = IF cleanupFails THEN unhandled \cup {c} ELSE unhandled
       /\ resolvedSteps' = [resolvedSteps EXCEPT ![c] = Append(@, src)]
       /\ ctx' = [ctx EXCEPT ![c] = IF "removeTmpDir" \in Range(EntryActions(target))
                                    THEN removeTmpDir(cx, cleanupFails)
                                    ELSE cx]
       /\ mstate' = [mstate EXCEPT ![c] = target]
       /\ acts' = [acts EXCEPT ![c] = @ \o EntryActions(target)]
       \* what the service did before it resolved
       /\ registry' = IF src = "setupDestinationSite"
                      THEN [registry EXCEPT ![DestId(c)] = cx.newSiteName]
                      ELSE registry
       /\ siteDirs' = IF v = "clone" /\ src = "moveSiteFromTmpDir"
                      THEN siteDirs \cup {cx.destinationSite}
                      ELSE siteDirs
       /\ tmpDirs' = LET created == IF src = "createTmpDir"
                                    THEN tmpDirs \cup {cx.tmpDirData} ELSE tmpDirs
                     IN IF "removeTmpDir" \in Range(EntryActions(target)) /\ ~cleanupFails
                        THEN created \ {cx.tmpDirData}
                        ELSE created
       /\ IF IsFinal(target)
          THEN /\ running' = [running EXCEPT ![c] = {}]
               /\ invoked' = invoked
               /\ ipc' = ipc \o ResolveIPC(c, v, src)
                             \o <<BACKUP_STARTED(c), BACKUP_COMPLETED(c)>>
               /\ Stop(c, cx)
          ELSE /\ running' = [running EXCEPT ![c] = {Src(v, target)}]
               /\ invoked' = [invoked EXCEPT ![c] = Append(@, Src(v, target))]
               /\ ipc' = ipc \o ResolveIPC(c, v, src)
                             \o InvokeIPC(c, v, Src(v, target), cx)
                             \o <<BACKUP_STARTED(c)>>
               /\ UNCHANGED <<status, stops, slot, result, slotAtCompleted>>
       /\ UNCHANGED <<nextCall, warnings, variantOf, rejectedSteps, rejection, hostVars, slotAtStart>>

\* The turn that handles error.platform of the pending service, which
\* rejected with `data`.  partial: copySync of the clone's moveSiteFromTmpDir
\* had already written files to the destination path when it failed.
\* setupDestinationSite throws before siteData.addSite: on a duplicate name,
\* or with the error of a collaborator.  k: importDatabase failed at its
\* k-th query or import (0 for the other services); the ones before it had
\* their effect, the ones after it were not issued.  f: the restore's
\* moveSiteFromTmpDir rejected because fs.remove of f did, which rejects
\* Promise.all at once, the other removals still in flight (NoEntry when the
\* step rejected for another reason: for this step, copySync threw).
StepReject(c, data, partial, k, f) ==
    /\ UNCHANGED storeVars
    /\ status[c] = "running"
    /\ running[c] # {}
    /\ LET v == variantOf[c]
           s == mstate[c]
           src == Src(v, s)
           actions == OnErrorActions(v, s)
           cx == setErrorOnContext(ctx[c], data)
           dup == ThrowsOnDuplicate(checkForDuplicateSiteName(cx.newSiteName,
                                                              formatSiteNicename(cx.newSiteName)))
       IN
       /\ src \in running[c]
       /\ IF src = "setupDestinationSite" /\ dup
          THEN data = siteDomainTakenError /\ ~partial
          ELSE data \in Errors
       /\ partial => src = "moveSiteFromTmpDir"
       /\ IF v = "restore" /\ src = "moveSiteFromTmpDir"
          THEN IF AllSettled(removals[c])
               THEN /\ f = NoEntry
                    /\ siteFiles' = IF partial
                                    THEN [siteFiles EXCEPT ![cx.site] = copySync(StagingFiles, @)]
                                    ELSE siteFiles
                    /\ UNCHANGED <<itemsToDelete, removals>>
               ELSE /\ f \in removals[c]
                    /\ ~partial
                    /\ removals' = [removals EXCEPT ![c] = @ \ {f}]
                    /\ UNCHANGED <<siteFiles, itemsToDelete>>
          ELSE f = NoEntry /\ UNCHANGED fsVars
       /\ IF src = "importDatabase"
          THEN LET site == DatabaseSite(v, cx)
               IN /\ k \in 1 .. IssuedOps(cx.tmpDirData)
                  /\ sqlLog' = sqlLog \o [i \in 1 .. k |-> SqlOp(c, ImportOps[i])]
                  /\ db' = IF k = 4 THEN [db EXCEPT ![site] = "partial"]
                           ELSE IF k > 4 THEN [db EXCEPT ![site] = "dump"] ELSE db
                  /\ sqlMode' = IF k > 2 THEN [sqlMode EXCEPT ![site] = PermissiveSqlMode]
                                ELSE sqlMode
          ELSE k = 0 /\ UNCHANGED <<sqlMode, db, sqlLog>>
       /\ rejectedSteps' = [rejectedSteps EXCEPT ![c] = Append(@, src)]
       /\ rejection' = [rejection EXCEPT ![c] = data]
       /\ dumps' = IF EntryActions("failed") # <<>> THEN dumps \ {cx.tmpDirData} ELSE dumps
       /\ ctx' = [ctx EXCEPT ![c] = cx]
       /\ mstate' = [mstate EXCEPT ![c] = "failed"]
       /\ acts' = [acts EXCEPT ![c] = @ \o actions \o EntryActions("failed")]
       /\ running' = [running EXCEPT ![c] = {}]
       \* what the service did before it rejected
       /\ siteDirs' = IF v = "clone" /\ src = "moveSiteFromTmpDir" /\ partial
                      THEN siteDirs \cup {cx.destinationSite}
                      ELSE siteDirs
       /\ tmpDirs' = IF EntryActions("failed") # <<>> THEN tmpDirs \ {cx.tmpDirData}
                     ELSE tmpDirs
       \* the recovery action
       /\ ipc' = ipc \o ErrorActionIPC(c, Last(actions), cx)
                     \o <<BACKUP_STARTED(c), BACKUP_COMPLETED(c)>>
       /\ restarting' = IF v = "restore" /\ Last(actions) = "setErroredStatus"
                        THEN restarting \cup {cx.site} ELSE restarting
       /\ restarts' = IF v = "restore" /\ Last(actions) = "setErroredStatus"
                      THEN [restarts EXCEPT ![c] = @ + 1] ELSE restarts
       /\ deleteQ' = IF v = "clone" /\ Last(actions) = "setErroredStatus"
                     THEN deleteQ \cup {cx.destinationSite} ELSE deleteQ
       /\ Stop(c, cx)
       /\ UNCHANGED <<nextCall, warnings, variantOf, invoked, resolvedSteps, unhandled, slotAtStart,
                      registry, siteStatus>>

\* ------------------------------------------------------------- the host
\* The host handles a 'deleteSite' event: the site leaves the registry and
\* its files are trashed.
HostDeleteSite(s) ==
    /\ UNCHANGED storeVars
    /\ s \in deleteQ
    /\ deleteQ' = deleteQ \ {s}
    /\ registry' = [registry EXCEPT ![s] = NoName]
    /\ siteDirs' = siteDirs \ {s}
    /\ UNCHANGED <<slot, nextCall, warnings, machineVars, rejectedSteps, rejection, result, ipc, tmpDirs,
                   restarting, restarts, siteStatus, dbVars, fsVars>>

\* The promise of siteProcessManager.restart(site), which setErroredStatus
\* of the restore machine does not await, settles.
RestartSettles(s) ==
    /\ UNCHANGED storeVars
    /\ s \in restarting
    /\ restarting' = restarting \ {s}
    /\ UNCHANGED <<slot, nextCall, warnings, machineVars, rejectedSteps, rejection, result, ipc, diskVars,
                   restarts, deleteQ, siteStatus, dbVars, fsVars>>

\* The status the process manager reports for a site changes (its services
\* are started or halted).
OtherStatus(st) == IF st = "running" THEN "halted" ELSE "running"

HostStatusChange(s) ==
    /\ UNCHANGED storeVars
    /\ siteStatus' = [siteStatus EXCEPT ![s] = OtherStatus(@)]
    /\ UNCHANGED <<slot, nextCall, warnings, machineVars, rejectedSteps, rejection, result, ipc, diskVars,
                   restarting, restarts, deleteQ, dbVars, fsVars>>

\* An fs.remove started by the restore's moveSiteFromTmpDir settles: the
\* entry is gone when it resolved.  While the step is pending a rejection is
\* the step's rejection (StepReject); after it, nobody looks at the outcome.
RemovalSettles(c, f, ok) ==
    /\ UNCHANGED storeVars
    /\ f \in removals[c]
    /\ ok \/ status[c] # "running"
    /\ removals' = [removals EXCEPT ![c] = @ \ {f}]
    /\ siteFiles' = IF ok THEN [siteFiles EXCEPT ![ctx[c].site] = @ \ {f}] ELSE siteFiles
    /\ UNCHANGED <<slot, nextCall, warnings, machineVars, rejectedSteps, rejection, result, ipc, diskVars,
                   hostVars, dbVars, itemsToDelete>>

Next ==
    \/ \E site \in BaseSites : restoreFromBackup(site)
    \/ \E baseSite \in BaseSites, newSiteName \in Names : cloneFromBackup(baseSite, newSiteName)
    \/ \E c \in CallIds, cleanupFails \in BOOLEAN, hasDump \in BOOLEAN :
          StepResolve(c, cleanupFails, hasDump)
    \/ \E c \in CallIds, data \in Errors \cup {siteDomainTakenError}, partial \in BOOLEAN,
          k \in 0 .. Len(ImportOps), f \in EntryNames \cup {NoEntry} :
          StepReject(c, data, partial, k, f)
    \/ \E c \in CallIds, f \in EntryNames, ok \in BOOLEAN : RemovalSettles(c, f, ok)
    \/ \E s \in SiteIds : HostDeleteSite(s)
    \/ \E s \in SiteIds : RestartSettles(s)
    \/ \E s \in BaseSites : HostStatusChange(s)

Spec == Init /\ [][Next]_vars

\* ------------------------------------------- the providers store's turns
\* store.dispatch(action): the reducer runs to completion.
Dispatch(type, payload) ==
    /\ providers' = extraReducers(providers, type, payload)
    /\ lastAction' = type
    /\ UNCHANGED workflowVars

\* dispatch(getEnabledProvidersHub()): the thunk dispatches pending at once.
\* Nothing keeps a second request from starting while one is in flight.
GetEnabledPending(r) ==
    /\ hubRequests[r] = "idle"
    /\ hubRequests' = [hubRequests EXCEPT ![r] = "pending"]
    /\ Dispatch(getEnabledPending, Undefined)

GetEnabledFulfilled(r, payload) ==
    /\ hubRequests[r] = "pending"
    /\ hubRequests' = [hubRequests EXCEPT ![r] = "fulfilled"]
    /\ Dispatch(getEnabledFulfilled, payload)

GetEnabledRejected(r) ==
    /\ hubRequests[r] = "pending"
    /\ hubRequests' = [hubRequests EXCEPT ![r] = "rejected"]
    /\ Dispatch(getEnabledRejected, Undefined)

InitActiveFulfilled(payload) ==
    /\ Dispatch(initActiveFulfilled, payload)
    /\ UNCHANGED hubRequests

SetActiveFulfilled(payload) ==
    /\ Dispatch(setActiveFulfilled, payload)
    /\ UNCHANGED hubRequests

ProvidersNext ==
    \/ \E r \in RequestIds : GetEnabledPending(r)
    \/ \E r \in RequestIds, payload \in EnabledProvidersLists : GetEnabledFulfilled(r, payload)
    \/ \E r \in RequestIds : GetEnabledRejected(r)
    \/ \E payload \in ActiveProvidersLookups \cup {Null} : InitActiveFulfilled(payload)
    \/ \E payload \in ActiveProvidersLookups : SetActiveFulfilled(payload)

ProvidersSpec == Init /\ [][ProvidersNext]_vars

\* Every invoked step eventually resolves or rejects, and the host handles
\* the events and requests it was sent.
StepSettles(c) ==
    \/ \E cleanupFails \in BOOLEAN, hasDump \in BOOLEAN : StepResolve(c, cleanupFails, hasDump)
    \/ \E data \in Errors \cup {siteDomainTakenError}, partial \in BOOLEAN,
          k \in 0 .. Len(ImportOps), f \in EntryNames \cup {NoEntry} :
          StepReject(c, data, partial, k, f)

FairSpec == Spec /\ \A c \in CallIds : WF_vars(StepSettles(c))

\* =================================================================
\* Properties
\* =================================================================
IsPrefix(p, q) == Len(p) <= Len(q) /\ \A i \in 1 .. Len(p) : p[i] = q[i]

Started(c) == status[c] # "notStarted"
Settled(c) == status[c] = "stopped"
FailedRun(c) == Settled(c) /\ mstate[c] = "failed"
FinishedRun(c) == Settled(c) /\ mstate[c] = "finished"
\* The call returned without creating a machine.
Aborted(c) == result[c].st = "resolved" /\ variantOf[c] = "none"
\* This step is a call of an entry point made while the slot is occupied.
CallWhileBusy == slot # NoMachine /\ nextCall' = nextCall + 1

\* C1: single-flight.  At most one machine is started and not yet stopped at
\* any time, and a call made while the slot is non-null creates and starts
\* no machine.
C1_SingleFlight ==
    /\ [](Cardinality({c \in CallIds : status[c] = "running"}) <= 1)
    /\ [][CallWhileBusy => /\ status' = status
                           /\ variantOf' = variantOf
                           /\ mstate' = mstate]_vars

C1_Witness ==
    \E c, d \in CallIds : c < d /\ status[c] = "running" /\ Aborted(d)

\* C2: when a run ends in 'failed', the promise resolves with { error }
\* holding the failure captured into the context by setErrorOnContext.
C2_FailureDelivered ==
    \A c \in CallIds :
        FailedRun(c) => result[c] = ResolvedWith("errorObj", ctx[c].error)

\* C3 as stated: every promise, the one of a call made while another
\* workflow is in flight included, settles with null or { error }.
C3_EveryPromiseNullOrError ==
    \A c \in CallIds :
        result[c].st # "notCalled" =>
            /\ result[c].st \in {"pending", "resolved"}
            /\ result[c].st = "resolved" => result[c].val \in {Null, "errorObj"}

\* C3 amended: the promise of a call that started a machine is pending until
\* the machine stops and then resolved with null or { error }; the promise
\* of a call made while the slot is occupied is resolved with undefined.
C3_StartedNullOrError ==
    \A c \in CallIds :
        /\ result[c].st \in {"notCalled", "pending", "resolved"}
        /\ (Started(c) /\ result[c].st = "resolved") =>
               result[c].val \in {Null, "errorObj"}
        /\ Settled(c) => result[c].st = "resolved"
        /\ Aborted(c) => result[c].val = Undefined

C3_Witness ==
    \E c, d \in CallIds :
        /\ Settled(c) /\ result[c].val = Null
        /\ Aborted(d) /\ result[d].val = Undefined

\* C4: a call made while the slot is occupied is a no-op: no step is
\* invoked, no event is sent, the slot, every machine's state and context,
\* every other promise, the registry and the disk are unchanged; the call's
\* own promise resolves with undefined.
C4_BusyCallNoOp ==
    [][CallWhileBusy =>
          /\ UNCHANGED <<slot, machineVars, rejectedSteps, rejection, ipc, diskVars, hostVars, dbVars,
                         fsVars>>
          /\ result' = [result EXCEPT ![nextCall'] = ResolvedWith(Undefined, Undefined)]
      ]_vars

C4_Witness ==
    \E c, d \in CallIds :
        /\ c < d /\ slot = c /\ Len(resolvedSteps[c]) >= 1
        /\ Aborted(d) /\ warnings >= 1

\* C5: the slot is released regardless of outcome.  If every invoked step
\* eventually settles, a run that holds the slot eventually stops in
\* 'finished' or 'failed' with the slot back to null, and a call made when
\* the slot is null starts a new machine.
C5_SlotReleased ==
    /\ \A c \in CallIds :
          (slot = c) ~> (slot = NoMachine /\ Settled(c) /\ IsFinal(mstate[c]))
    /\ [][(slot = NoMachine /\ nextCall' = nextCall + 1) =>
              (slot' = nextCall' /\ status'[nextCall'] = "running")]_vars

C5_Witness ==
    \E c, d \in CallIds :
        c < d /\ Settled(c) /\ slot = d /\ status[d] = "running"

\* C6: if every invoked step eventually settles, the promise of a call that
\* started a machine is eventually settled.
C6_PromiseSettles ==
    \A c \in CallIds : (result[c].st = "pending") ~> (result[c].st = "resolved")

C6_Witness ==
    \E c, d \in CallIds :
        /\ FinishedRun(c) /\ result[c].st = "resolved"
        /\ FailedRun(d) /\ result[d].st = "resolved"

\* The services of a run were invoked in the order `order`, each after its
\* predecessor resolved, never two at a time.
InOrder(c, order) ==
    /\ IsPrefix(invoked[c], order)
    /\ IsPrefix(resolvedSteps[c], invoked[c])
    /\ Len(invoked[c]) <= Len(resolvedSteps[c]) + 1
    /\ Cardinality(running[c]) <= 1
    /\ running[c] \subseteq (Range(invoked[c]) \ Range(resolvedSteps[c]))

\* C7: a restore run invokes getCredentials, createTmpDir, restoreBackup,
\* moveSiteFromTmpDir, importDatabase in this order, each only after its
\* predecessor resolved, and never two at the same time.
C7_RestoreOrder ==
    \A c \in CallIds :
        variantOf[c] = "restore" =>
            /\ InOrder(c, RestoreOrder)
            /\ mstate[c] = "finished" => resolvedSteps[c] = RestoreOrder

C7_Witness ==
    \E c \in CallIds :
        variantOf[c] = "restore" /\ FinishedRun(c) /\ invoked[c] = RestoreOrder

\* C8: a clone run invokes getCredentials, setupDestinationSite,
\* createTmpDir, cloneBackup, moveSiteFromTmpDir, provisionSite,
\* importDatabase, searchReplace in this order, each only after its
\* predecessor resolved, and reaches 'finished' only after searchReplace
\* resolved.
C8_CloneOrder ==
    \A c \in CallIds :
        variantOf[c] = "clone" =>
            /\ InOrder(c, CloneOrder)
            /\ mstate[c] = "finished" =>
                   (resolvedSteps[c] = CloneOrder /\ Last(resolvedSteps[c]) = "searchReplace")

C8_Witness ==
    \E c \in CallIds :
        variantOf[c] = "clone" /\ FinishedRun(c) /\ invoked[c] = CloneOrder

\* C9: rollback completeness.  When a clone run that failed at
\* setupDestinationSite or later has settled, the destination site is not
\* in the registry and its files are gone.
C9_RollbackComplete ==
    \A c \in CallIds :
        (variantOf[c] = "clone" /\ FailedRun(c)
           /\ "setupDestinationSite" \in Range(invoked[c])) =>
            (registry[DestId(c)] = NoName /\ DestId(c) \notin siteDirs)

\* C10 as stated: on a failed run, at every failure point, removeTmpDir was
\* not executed and a staging directory of the run exists on disk once the
\* workflow has settled.
C10_StagingPresentAfterFailure ==
    \A c \in CallIds :
        FailedRun(c) =>
            /\ "removeTmpDir" \notin Range(acts[c])
            /\ ctx[c].tmpDirData # NoDir
            /\ ctx[c].tmpDirData \in tmpDirs

\* C10 amended: on a failed run removeTmpDir is never executed; if the run
\* failed after createTmpDir resolved, its staging directory is on disk once
\* the workflow has settled; if it failed at createTmpDir or before, the run
\* never had a staging directory.
C10_StagingKeptAfterFailure ==
    \A c \in CallIds :
        FailedRun(c) =>
            /\ "removeTmpDir" \notin Range(acts[c])
            /\ IF "createTmpDir" \in Range(resolvedSteps[c])
               THEN ctx[c].tmpDirData = c /\ c \in tmpDirs
               ELSE ctx[c].tmpDirData = NoDir /\ c \notin tmpDirs

C10_Witness ==
    \E c, d \in CallIds :
        /\ variantOf[c] = "restore" /\ FailedRun(c) /\ c \in tmpDirs
        /\ variantOf[d] = "clone" /\ FailedRun(d) /\ d \in tmpDirs

\* ----------------------------------------------------------------
\* The events of run c, in the order sent.
RunEvents(c) == SelectSeq(ipc, LAMBDA e : e.run = c)
\* How many events of this type run c sent, and how many of them are `ev`.
CountType(c, type) == Cardinality({i \in 1 .. Len(ipc) : ipc[i].run = c /\ ipc[i].type = type})
CountEvent(ev) == Cardinality({i \in 1 .. Len(ipc) : ipc[i] = ev})
CountAct(c, a) == Cardinality({i \in 1 .. Len(acts[c]) : acts[c][i] = a})
\* The service whose rejection ended a failed run.
FailedAt(c) == Last(invoked[c])

\* C11 as stated: on a successful run the staging directory has been emptied
\* and removed by the time the promise resolves, and the promise resolves
\* with null.
C11_StagingRemovedOnSuccess ==
    \A c \in CallIds :
        FinishedRun(c) =>
            /\ c \notin tmpDirs
            /\ result[c] = ResolvedWith(Null, Undefined)

\* C11 amended: on a successful run removeTmpDir has run once on the run's
\* staging directory by the time the promise resolves, the promise resolves
\* with null, and the directory is gone from the disk unless emptying or
\* removing it threw.
C11_StagingCleanupOnSuccess ==
    \A c \in CallIds :
        FinishedRun(c) =>
            /\ CountAct(c, "removeTmpDir") = 1
            /\ ctx[c].tmpDirData = c
            /\ result[c] = ResolvedWith(Null, Undefined)
            /\ c \in tmpDirs <=> c \in unhandled

C11_Witness ==
    \E c, d \in CallIds :
        /\ variantOf[c] = "restore" /\ FinishedRun(c) /\ c \notin tmpDirs
        /\ variantOf[d] = "clone" /\ FinishedRun(d) /\ d \notin tmpDirs

\* The name of clone run c collides with a registered site's name.
Collides(c) ==
    checkForDuplicateSiteName(ctx[c].newSiteName, formatSiteNicename(ctx[c].newSiteName))

\* C12: name-collision short-circuit.  When setupDestinationSite finds the
\* new name taken, the run goes to 'failed' from setupDestinationSite with
\* nothing added to the registry, createTmpDir never invoked, nothing copied
\* to a site path, no deleteSite event sent, and no new site registered
\* when the workflow has settled.
C12_NameCollision ==
    /\ [][\A c \in CallIds :
            (running[c] = {"setupDestinationSite"} /\ Collides(c) /\ mstate'[c] # mstate[c]) =>
                /\ mstate'[c] = "failed" /\ status'[c] = "stopped"
                /\ ctx'[c].error = siteDomainTakenError
                /\ UNCHANGED <<registry, siteDirs, tmpDirs, deleteQ>>]_vars
    /\ [](\A c \in CallIds :
            ctx[c].error = siteDomainTakenError =>
                /\ FailedRun(c) /\ FailedAt(c) = "setupDestinationSite"
                /\ "createTmpDir" \notin Range(invoked[c])
                /\ ctx[c].destinationSite = NoSite
                /\ registry[DestId(c)] = NoName
                /\ DestId(c) \notin siteDirs /\ c \notin tmpDirs
                /\ CountType(c, "deleteSite") = 0)

C12_Witness ==
    \E c \in CallIds :
        /\ ctx[c].error = siteDomainTakenError /\ FailedRun(c)
        /\ ctx[c].newSiteName = "blog"

\* C14: a clone that fails while resolving credentials only navigates to the
\* base site and shows an error banner: no deleteSite event is sent and no
\* destination site was ever added to the registry.
C14_CredentialFailureNoRollback ==
    \A c \in CallIds :
        (variantOf[c] = "clone" /\ invoked[c] = <<"getCredentials">>) =>
            /\ registry[DestId(c)] = NoName
            /\ ctx[c].destinationSite = NoSite
            /\ CountType(c, "deleteSite") = 0
            /\ DestId(c) \notin deleteQ /\ NoSite \notin deleteQ
            /\ FailedRun(c) =>
                  /\ acts[c] = onBaseSiteErrorFactory
                  /\ RunEvents(c) =
                        <<BACKUP_STARTED(c),
                          Event("goToRoute", ctx[c].baseSite, "", c),
                          Event("showSiteBanner", ctx[c].baseSite,
                                "site-errored-backup-cloning", c),
                          BACKUP_STARTED(c), BACKUP_COMPLETED(c)>>

C14_Witness ==
    \E c \in CallIds :
        variantOf[c] = "clone" /\ FailedRun(c) /\ FailedAt(c) = "getCredentials"

RollbackSteps == {"createTmpDir", "cloneBackup", "moveSiteFromTmpDir", "provisionSite",
                  "importDatabase", "searchReplace"}

\* C20: a clone that fails at any step from creatingTmpDir through
\* searchReplaceDomain runs setErroredStatus exactly once: one deleteSite
\* event for the destination site with trashFiles, one goToRoute to the base
\* site, one error banner on the base site; a clone that has not failed has
\* run none of it.
C20_CloneRollbackOnce ==
    \A c \in CallIds :
        variantOf[c] = "clone" =>
            /\ (FailedRun(c) /\ FailedAt(c) \in RollbackSteps) =>
                  /\ CountAct(c, "setErroredStatus") = 1
                  /\ CountAct(c, "setErroredBaseSite") = 0
                  /\ CountType(c, "deleteSite") = 1
                  /\ CountEvent(Event("deleteSite", DestId(c), "trashFiles", c)) = 1
                  /\ CountType(c, "goToRoute") = 1
                  /\ CountEvent(Event("goToRoute", ctx[c].baseSite, "", c)) = 1
                  /\ CountType(c, "showSiteBanner") = 1
                  /\ CountEvent(Event("showSiteBanner", ctx[c].baseSite,
                                      "site-errored-backup-cloning", c)) = 1
            /\ mstate[c] # "failed" =>
                  /\ CountAct(c, "setErroredStatus") = 0
                  /\ CountType(c, "deleteSite") = 0
                  /\ CountType(c, "goToRoute") = 0
                  /\ CountType(c, "showSiteBanner") = 0

C20_Witness ==
    \E c, d \in CallIds :
        /\ variantOf[c] = "clone" /\ FailedRun(c) /\ FailedAt(c) = "searchReplace"
        /\ variantOf[d] = "clone" /\ FinishedRun(d)

\* This step starts the machine of call c.
Starts(c) == status[c] = "notStarted" /\ status'[c] = "running"
\* This step settles run c in 'failed'.
SettlesFailed(c) == status[c] = "running" /\ status'[c] = "stopped" /\ mstate'[c] = "failed"

\* C13: restore failure recovery.  The context keeps the status that
\* getSiteStatus returned when the entry point was called; a restore run
\* that failed, at whichever step, has sent one updateSiteStatus for its
\* site with that status, shown one error banner for the site and requested
\* one restart; a run that has not failed has done none of it.
C13_RestoreRecovery ==
    /\ [][\A c \in CallIds :
            /\ (Starts(c) /\ variantOf'[c] = "restore") =>
                   ctx'[c].initialSiteStatus = siteStatus[ctx'[c].site]
            /\ Started(c) => ctx'[c].initialSiteStatus = ctx[c].initialSiteStatus]_vars
    /\ [](\A c \in CallIds :
            variantOf[c] = "restore" =>
                /\ FailedRun(c) =>
                      /\ CountAct(c, "setErroredStatus") = 1
                      /\ CountType(c, "updateSiteStatus") = 1
                      /\ CountEvent(Event("updateSiteStatus", ctx[c].site,
                                          ctx[c].initialSiteStatus, c)) = 1
                      /\ CountType(c, "showSiteBanner") = 1
                      /\ CountEvent(Event("showSiteBanner", ctx[c].site,
                                          "site-errored-backup", c)) = 1
                      /\ restarts[c] = 1
                /\ mstate[c] # "failed" =>
                      /\ CountAct(c, "setErroredStatus") = 0
                      /\ CountType(c, "updateSiteStatus") = 0
                      /\ CountType(c, "showSiteBanner") = 0
                      /\ restarts[c] = 0)

\* A restore run failed at its last step after the site's status changed.
C13_Witness ==
    \E c \in CallIds :
        /\ variantOf[c] = "restore" /\ FailedRun(c) /\ FailedAt(c) = "importDatabase"
        /\ ctx[c].initialSiteStatus # siteStatus[ctx[c].site]
        /\ restarts[c] = 1

\* C17: fully settled before release.  In the turn in which a failed run
\* clears the slot and resolves its promise its recovery is over: the
\* restart of the site (restore) or the deletion of the destination site
\* (clone) is not in flight; and no machine starts while a recovery is.
C17_RecoverySettledBeforeRelease ==
    [][\A c \in CallIds :
          /\ SettlesFailed(c) =>
                /\ variantOf[c] = "restore" => ctx'[c].site \notin restarting'
                /\ variantOf[c] = "clone" => ctx'[c].destinationSite \notin deleteQ'
          /\ Starts(c) => (restarting = {} /\ deleteQ = {})]_vars

\* The turn that handles the settlement of run c's importDatabase.
ImportSettles(c) ==
    status[c] = "running" /\ running[c] = {"importDatabase"} /\ running'[c] # running[c]
\* The queries and imports run c issued.
SqlOpsOf(c) == SelectSeq(sqlLog, LAMBDA e : e.run = c)

\* C15: missing-dump tolerance.  In both variants, when the staging directory
\* holds no file at app/sql/<dump file>, importDatabase resolves (it never
\* rejects), no query or import is issued, the SQL mode and the database of
\* every site are unchanged, and the machine advances to 'finished'
\* (restore) or 'searchReplaceDomain' (clone), not to 'failed'.
C15_MissingDumpTolerated ==
    [][\A c \in CallIds :
          (ImportSettles(c) /\ ctx[c].tmpDirData \notin dumps) =>
              /\ resolvedSteps'[c] = Append(resolvedSteps[c], "importDatabase")
              /\ rejectedSteps'[c] = rejectedSteps[c]
              /\ UNCHANGED <<sqlMode, db, sqlLog>>
              /\ mstate'[c] = IF variantOf[c] = "restore" THEN "finished"
                                                         ELSE "searchReplaceDomain"]_vars

\* A restore finished and a clone reached searchReplaceDomain, both from a
\* snapshot without a dump and without having issued a query.
C15_Witness ==
    \E c, d \in CallIds :
        /\ variantOf[c] = "restore" /\ FinishedRun(c)
        /\ Last(resolvedSteps[c]) = "importDatabase" /\ SqlOpsOf(c) = <<>>
        /\ db[ctx[c].site] = "original"
        /\ variantOf[d] = "clone" /\ mstate[d] = "searchReplaceDomain"
        /\ ctx[d].tmpDirData \notin dumps /\ SqlOpsOf(d) = <<>>
        /\ db[ctx[d].destinationSite] = "empty"

\* C16: when a run of either variant has stopped, context.error is set if
\* and only if the machine is in 'failed' and unset if and only if it is in
\* 'finished'; and 'failed' is reached if and only if some step rejected.
C16_ErrorIffFailed ==
    \A c \in CallIds :
        /\ Settled(c) =>
              /\ Truthy(ctx[c].error) <=> mstate[c] = "failed"
              /\ ~Truthy(ctx[c].error) <=> mstate[c] = "finished"
        /\ mstate[c] = "failed" <=> rejectedSteps[c] # <<>>

\* One run has stopped in 'failed' with the error of the step that rejected,
\* another has stopped in 'finished' with no error.
C16_Witness ==
    \E c, d \in CallIds :
        /\ FailedRun(c) /\ ctx[c].error \in Errors /\ Len(rejectedSteps[c]) = 1
        /\ FinishedRun(d) /\ ~Truthy(ctx[d].error) /\ rejectedSteps[d] = <<>>

\* The turn in which run c's moveSiteFromTmpDir settles.
LeavesMoving(c) == mstate[c] = "movingSiteFromTmpDir" /\ mstate'[c] # "movingSiteFromTmpDir"

\* C18: the restore's filesystem apply is awaited as a whole.  The copy from
\* staging to the site path happens only when no removal of the run is in
\* flight, and when the machine leaves movingSiteFromTmpDir (to
\* restoringDatabase or to 'failed') no removal of that step is in flight,
\* also when one of the removals failed.
C18_ApplyAwaitedAsWhole ==
    [][\A c \in CallIds :
          (variantOf[c] = "restore" /\ LeavesMoving(c)) =>
              /\ siteFiles' # siteFiles => removals[c] = {}
              /\ removals'[c] = {}]_vars

\* C19: what restore-in-place removes, getFilteredSiteFiles of the site's
\* top-level entries, never contains 'conf' and never contains a dotfile.
C19_FilteredExcludesConfAndDotfiles ==
    \A c \in CallIds :
        (variantOf[c] = "restore" /\ "moveSiteFromTmpDir" \in Range(invoked[c])) =>
            \A e \in itemsToDelete[c] : e # Entry(FALSE, "conf") /\ ~e.dot

\* No element of the sequence occurs twice.
NoRepeat(seq) == \A i, j \in 1 .. Len(seq) : seq[i] = seq[j] => i = j

\* C21: no retry.  Within one run of either variant every step function is
\* invoked at most once, at most one step rejects, and once a step has
\* rejected no step is invoked in that run again.
C21_NoRetry ==
    /\ [](\A c \in CallIds : NoRepeat(invoked[c]) /\ Len(rejectedSteps[c]) <= 1)
    /\ [][\A c \in CallIds :
             /\ rejectedSteps'[c] # <<>> => /\ invoked'[c] = invoked[c]
                                            /\ running'[c] = {}
             /\ rejectedSteps[c] # <<>> => rejectedSteps'[c] = rejectedSteps[c]]_vars

\* A restore failed at its third step and a clone at its last: each had
\* invoked the steps up to the failed one once, and nothing after it.
C21_Witness ==
    \E c, d \in CallIds :
        /\ variantOf[c] = "restore" /\ FailedRun(c)
        /\ rejectedSteps[c] = <<"restoreBackup">>
        /\ invoked[c] = <<"getCredentials", "createTmpDir", "restoreBackup">>
        /\ variantOf[d] = "clone" /\ FailedRun(d)
        /\ rejectedSteps[d] = <<"searchReplace">> /\ invoked[d] = CloneOrder

\* What belongs to run c: machine state, context, steps, actions, stops.
RunState(c) == <<mstate[c], ctx[c], invoked[c], running[c], acts[c], stops[c], status[c]>>

\* C22: 'finished' and 'failed' are absorbing.  Once a run of either variant
\* is in one of them its machine state and context never change again, no
\* step is pending or invoked, and the stop handler has run at most once
\* (one slot clear, one BACKUP_COMPLETED, one resolution of the promise).
C22_FinalAbsorbing ==
    /\ [](\A c \in CallIds :
             /\ stops[c] <= 1
             /\ CountType(c, "BACKUP_COMPLETED") <= 1
             /\ IsFinal(mstate[c]) => running[c] = {})
    /\ [][\A c \in CallIds :
             IsFinal(mstate[c]) => /\ RunState(c)' = RunState(c)
                                   /\ result'[c] = result[c]
                                   /\ RunEvents(c)' = RunEvents(c)]_vars

\* The first run ended in 'failed' and the second in 'finished', so the
\* first stayed as it was while the second ran all its steps.
C22_Witness ==
    \E c, d \in CallIds :
        /\ c < d
        /\ FailedRun(c) /\ stops[c] = 1
        /\ FinishedRun(d) /\ stops[d] = 1

\* How many states run c has entered: one per invoked step, and the final one.
StatesEntered(c) == Len(invoked[c]) + (IF IsFinal(mstate[c]) THEN 1 ELSE 0)

\* C23: observability.  Every started run has sent one BACKUP_STARTED per
\* state it entered, the initial one included, and sends exactly one
\* BACKUP_COMPLETED, at stop; that one is the last event of the run, so no
\* BACKUP_STARTED of the run follows it, and it is sent when the slot has
\* been cleared.
C23_Observability ==
    \A c \in CallIds :
        /\ CountType(c, "BACKUP_STARTED") = (IF Started(c) THEN StatesEntered(c) ELSE 0)
        /\ Started(c) => StatesEntered(c) >= 1
        /\ CountType(c, "BACKUP_COMPLETED") = (IF Settled(c) THEN 1 ELSE 0)
        /\ Settled(c) => /\ Last(RunEvents(c)) = BACKUP_COMPLETED(c)
                         /\ slotAtCompleted[c] = NoMachine
        /\ ~Settled(c) => slotAtCompleted[c] = Undefined

\* A restore has run to 'finished': six states entered, six BACKUP_STARTED,
\* then the BACKUP_COMPLETED; and a clone is in its initial state, with one.
C23_Witness ==
    \E c, d \in CallIds :
        /\ variantOf[c] = "restore" /\ FinishedRun(c)
        /\ CountType(c, "BACKUP_STARTED") = Len(RestoreOrder) + 1
        /\ CountType(c, "BACKUP_COMPLETED") = 1
        /\ variantOf[d] = "clone" /\ mstate[d] = InitialState
        /\ CountType(d, "BACKUP_STARTED") = 1 /\ CountType(d, "BACKUP_COMPLETED") = 0

\* The actions that recover from a failure.
RecoveryActions == {"setErroredStatus", "setErroredBaseSite"}

\* C24: cleanup is best-effort.  If emptying or removing the staging
\* directory fails in the entry action of 'finished', the run still ends in
\* 'finished' with context.error unset and no step rejected, no recovery
\* action runs and no recovery event is sent, the slot is cleared, and the
\* promise resolves with null.
C24_CleanupBestEffort ==
    /\ [](\A c \in unhandled :
             /\ FinishedRun(c)
             /\ ~Truthy(ctx[c].error) /\ rejectedSteps[c] = <<>>
             /\ \A a \in RecoveryActions \cup {"setErrorOnContext"} : CountAct(c, a) = 0
             /\ CountType(c, "showSiteBanner") = 0 /\ CountType(c, "deleteSite") = 0
             /\ restarts[c] = 0
             /\ slot # c
             /\ result[c] = ResolvedWith(Null, Undefined))
    /\ [][\A c \in CallIds : (c \notin unhandled /\ c \in unhandled') => slot' = NoMachine]_vars

\* The cleanup of a restore and of a clone failed: each ended in 'finished'
\* with its staging directory still on disk.
C24_Witness ==
    \E c, d \in unhandled :
        /\ variantOf[c] = "restore" /\ c \in tmpDirs /\ result[c] = ResolvedWith(Null, Undefined)
        /\ variantOf[d] = "clone" /\ d \in tmpDirs /\ result[d] = ResolvedWith(Null, Undefined)

\* The sub-operations of importDatabase in the order the claim gives them.
C25_ExpectedOrder == <<"SELECT @@SQL_MODE", "SET GLOBAL SQL_MODE=NO_AUTO_VALUE_ON_ZERO",
                       "DROP DATABASE; CREATE DATABASE", "importSQLFile",
                       "SET GLOBAL SQL_MODE=existingSqlMode">>
\* The queries and imports issued in this step, all of them by run c.
IssuedNow(c) == IF IsPrefix(sqlLog, sqlLog') /\ Len(sqlLog') > Len(sqlLog)
                THEN [i \in 1 .. Len(sqlLog') - Len(sqlLog) |-> sqlLog'[Len(sqlLog) + i].op]
                ELSE <<>>
ImportResolves(c) == ImportSettles(c) /\ resolvedSteps'[c] # resolvedSteps[c]
ImportRejects(c) == ImportSettles(c) /\ rejectedSteps'[c] # rejectedSteps[c]

\* C25: with a dump present importDatabase issues, in this order: read the
\* SQL mode, set the permissive mode, drop and recreate the database, import
\* the dump, restore the SQL mode.  When one of them fails none of the later
\* ones is issued, the machine goes to 'failed', and the SQL mode is not
\* restored: it is the permissive one if that had been set, else unchanged.
C25_ImportOrder ==
    [][\A c \in CallIds :
          LET site == DatabaseSite(variantOf[c], ctx[c]) IN
          /\ (ImportResolves(c) /\ ctx[c].tmpDirData \in dumps) =>
                 IssuedNow(c) = C25_ExpectedOrder
          /\ ImportRejects(c) =>
                 /\ ctx[c].tmpDirData \in dumps
                 /\ IssuedNow(c) # <<>> /\ IsPrefix(IssuedNow(c), C25_ExpectedOrder)
                 /\ mstate'[c] = "failed"
                 /\ sqlMode'[site] = IF Len(IssuedNow(c)) > 2 THEN PermissiveSqlMode
                                                              ELSE sqlMode[site]
                 /\ Len(IssuedNow(c)) < 4 => db'[site] = db[site]]_vars

\* A restore failed while importing the dump: three operations before it
\* had been issued, the mode restoration was not, and the server is left in
\* the permissive mode.
C25_Witness ==
    \E c \in CallIds :
        /\ variantOf[c] = "restore" /\ FailedRun(c) /\ FailedAt(c) = "importDatabase"
        /\ Len(SqlOpsOf(c)) = 4 /\ Last(SqlOpsOf(c)).op = "importSQLFile"
        /\ sqlMode[ctx[c].site] = PermissiveSqlMode
        /\ db[ctx[c].site] = "partial"

C27_ErrorAssignedOnce ==
    /\ [](\A c \in CallIds :
             /\ CountAct(c, "setErrorOnContext") = (IF mstate[c] = "failed" THEN 1 ELSE 0)
             /\ mstate[c] = "failed" => (Truthy(rejection[c]) /\ ctx[c].error = rejection[c])
             /\ mstate[c] # "failed" => ~Truthy(ctx[c].error))
    /\ [][\A c \in CallIds :
             /\ ctx'[c].error # ctx[c].error =>
                    /\ ~Truthy(ctx[c].error)
                    /\ mstate[c] # "failed" /\ mstate'[c] = "failed"
                    /\ ctx'[c].error = rejection'[c]
             /\ rejection[c] # Undefined => rejection'[c] = rejection[c]]_vars

\* A restore failed with a collaborator's error and a clone with the
\* name-taken error of setupDestinationSite: each context holds its own.
C27_Witness ==
    \E c, d \in CallIds :
        /\ variantOf[c] = "restore" /\ FailedRun(c) /\ ctx[c].error \in Errors
        /\ variantOf[d] = "clone" /\ FailedRun(d) /\ ctx[d].error = siteDomainTakenError
        /\ c < d

\* Run c's step has resolved.
Resolved(c, step) == step \in Range(resolvedSteps[c])

\* C28: in both variants context.tmpDirData is set in every state after
\* createTmpDir has resolved, the final ones included, it is the directory
\* created in that same run, and it is not reassigned.
C28_StagingDirSet ==
    /\ [](\A c \in CallIds :
             Resolved(c, "createTmpDir") => /\ ctx[c].tmpDirData # NoDir
                                            /\ ctx[c].tmpDirData = c
                                            /\ \A d \in CallIds \ {c} :
                                                  ctx[d].tmpDirData # ctx[c].tmpDirData)
    /\ [][\A c \in CallIds :
             ctx[c].tmpDirData # NoDir => ctx'[c].tmpDirData = ctx[c].tmpDirData]_vars

\* A restore is in 'finished' and a clone in its domain rewrite, each with
\* the staging directory it created.
C28_Witness ==
    \E c, d \in CallIds :
        /\ variantOf[c] = "restore" /\ FinishedRun(c) /\ ctx[c].tmpDirData = c
        /\ variantOf[d] = "clone" /\ mstate[d] = "searchReplaceDomain"
        /\ ctx[d].tmpDirData = d /\ d \in tmpDirs

\* C29: in a clone run context.destinationSite is set in every state after
\* setupDestinationSite has resolved, also when the rollback action
\* setErroredStatus runs (its deleteSite event names that site), and it is
\* unset until then; the context of a restore run never holds one.
C29_DestinationSiteSet ==
    \A c \in CallIds :
        /\ variantOf[c] = "clone" =>
               /\ Resolved(c, "setupDestinationSite") =>
                      (ctx[c].destinationSite # NoSite /\ ctx[c].destinationSite = DestId(c))
               /\ ~Resolved(c, "setupDestinationSite") => ctx[c].destinationSite = NoSite
               /\ mstate[c] \in {"gettingBackupCredentials", "setupDestinationSite"} =>
                      ctx[c].destinationSite = NoSite
               /\ CountAct(c, "setErroredStatus") > 0 =>
                      /\ ctx[c].destinationSite # NoSite
                      /\ CountEvent(Event("deleteSite", DestId(c), "trashFiles", c)) = 1
        /\ variantOf[c] # "clone" => ctx[c].destinationSite = NoSite

\* A clone failed after setup and rolled its destination site back, and a
\* restore ran to the end.
C29_Witness ==
    \E c, d \in CallIds :
        /\ variantOf[c] = "clone" /\ FailedRun(c) /\ CountAct(c, "setErroredStatus") = 1
        /\ ctx[c].destinationSite = DestId(c)
        /\ variantOf[d] = "restore" /\ FinishedRun(d) /\ ctx[d].destinationSite = NoSite

\* This step is a call of an entry point that creates machine c.
EntryPointSets(c) ==
    nextCall' = nextCall + 1 /\ c = nextCall' /\ status[c] = "notStarted" /\ status'[c] = "running"
\* This step runs the stop handler of machine c.
StopHandlerRuns(c) == stops'[c] # stops[c]

\* C30: the in-progress slot is written only by the two entry points, which
\* set it to the machine they create, and by the stop handlers, which set
\* it to null; a turn that is neither (a step settling without ending the
\* run, a reaction of the host) leaves it as it is; and a stop handler runs,
\* and so clears the slot, only while the slot holds its own machine.
C30_SlotFrame ==
    [][/\ slot' # slot =>
              \/ slot' # NoMachine /\ EntryPointSets(slot')
              \/ slot' = NoMachine /\ StopHandlerRuns(slot)
       /\ \A c \in CallIds :
              /\ StopHandlerRuns(c) => (slot = c /\ slot' = NoMachine)
              /\ EntryPointSets(c) => slot' = c]_vars

\* The slot has been set and cleared by a first run and set by a second.
C30_Witness ==
    \E c, d \in CallIds :
        /\ Settled(c) /\ stops[c] = 1
        /\ status[d] = "running" /\ slot = d /\ Len(invoked[d]) > 1

\* ------------------------------------------------------------------ C31
PendingRequests == {r \in RequestIds : hubRequests[r] = "pending"}

\* C31: isLoadingEnabledProviders is true exactly while at least one
\* getEnabledProvidersHub request is pending, whatever the interleaving of the
\* lifecycle actions of overlapping requests.  The flag is a boolean that
\* every fulfilled or rejected action clears, so the first of two overlapping
\* requests to settle clears it while the other is still pending.
C31_LoadingIffPending ==
    providers.isLoadingEnabledProviders <=> PendingRequests # {}

\* ------------------------------------------------------------------ C32
\* The steps of the restore that come before the filesystem apply.
BeforeApply == {"getCredentials", "createTmpDir", "restoreBackup"}
\* Run c is a restore whose machine went to 'failed' from the state of `src`.
RestoreFailedAt(c, src) ==
    variantOf[c] = "restore" /\ mstate[c] = "failed" /\ FailedAt(c) = src
\* This step is a turn of run c: its entry point, the settlement of one of
\* its steps, or the settlement of one of its removals.
TurnOf(c) ==
    \/ Starts(c)
    \/ resolvedSteps'[c] # resolvedSteps[c]
    \/ rejectedSteps'[c] # rejectedSteps[c]
    \/ removals'[c] # removals[c]

\* C32: a failed step prevents later side effects.  A restore run that
\* failed at getCredentials, createTmpDir or restoreBackup never invoked the
\* filesystem apply or the database apply: it listed no file for removal,
\* has no removal in flight and issued no query or import; a run that failed
\* at moveSiteFromTmpDir never invoked the database apply and issued no
\* query or import.  After its failure no turn is the run's, and the site's
\* files, its database and its SQL mode change only in a turn of a run that
\* has invoked the step that writes them.
C32_FailurePreventsLaterEffects ==
    /\ [](\A c \in CallIds :
            /\ (\E src \in BeforeApply : RestoreFailedAt(c, src)) =>
                   /\ "moveSiteFromTmpDir" \notin Range(invoked[c])
                   /\ "importDatabase" \notin Range(invoked[c])
                   /\ itemsToDelete[c] = {}
                   /\ removals[c] = {}
                   /\ SqlOpsOf(c) = <<>>
            /\ RestoreFailedAt(c, "moveSiteFromTmpDir") =>
                   /\ "importDatabase" \notin Range(invoked[c])
                   /\ SqlOpsOf(c) = <<>>)
    /\ [][/\ \A c \in CallIds :
               (\E src \in BeforeApply : RestoreFailedAt(c, src)) => ~TurnOf(c)
          /\ \A c \in CallIds :
               RestoreFailedAt(c, "moveSiteFromTmpDir") =>
                   (TurnOf(c) => resolvedSteps'[c] = resolvedSteps[c]
                                 /\ rejectedSteps'[c] = rejectedSteps[c])
          /\ siteFiles' # siteFiles =>
               \E c \in CallIds : /\ variantOf[c] = "restore"
                                   /\ "moveSiteFromTmpDir" \in Range(invoked[c])
                                   /\ TurnOf(c)
          /\ (\E s \in BaseSites : db'[s] # db[s] \/ sqlMode'[s] # sqlMode[s]) =>
               \E c \in CallIds : /\ variantOf[c] = "restore"
                                   /\ Last(invoked[c]) = "importDatabase"
                                   /\ TurnOf(c)
          /\ \A c \in CallIds :
               SqlOpsOf(c)' # SqlOpsOf(c) =>
                   Last(invoked[c]) = "importDatabase" /\ TurnOf(c)]_vars

\* A restore failed at the snapshot transfer, and another at the filesystem
\* apply, while the site has files and a later run could write them.
C32_Witness ==
    \E c, d \in CallIds :
        /\ RestoreFailedAt(c, "restoreBackup")
        /\ RestoreFailedAt(d, "moveSiteFromTmpDir")
        /\ siteFiles[ctx[c].site] # {}

\* ------------------------------------------------------------------ C33
\* C33: the slot covers the whole run.  When start() invokes getCredentials
\* the slot already holds the machine's interpreter, and in every
\* non-terminal state of a restore or clone run, until its stop handler has
\* run, the slot is non-null and holds the interpreter of that run.
C33_SlotCoversRun ==
    \A c \in CallIds :
        /\ Started(c) => slotAtStart[c] = c
        /\ (Started(c) /\ ~IsFinal(mstate[c])) =>
               /\ stops[c] = 0
               /\ slot # NoMachine
               /\ slot = c
        /\ (Started(c) /\ stops[c] = 0) => slot = c

\* A restore and a clone have each been in their last non-terminal state,
\* the second of them started after the first one's stop handler ran.
C33_Witness ==
    \E c, d \in CallIds :
        /\ variantOf[c] = "restore" /\ Settled(c) /\ "importDatabase" \in Range(invoked[c])
        /\ variantOf[d] = "clone" /\ mstate[d] = "searchReplaceDomain" /\ slot = d

\* ------------------------------------------------------------------ C34
\* This step reduces one of the two activeProviders actions.
ReducesActiveProviders ==
    lastAction' \in {initActiveFulfilled, setActiveFulfilled}

\* C34: in the providers store hasErrorLoadingEnabledProviders and
\* isLoadingEnabledProviders are never both true, after any sequence of the
\* five actions the slice handles, and the two activeProviders actions
\* (initActiveProvidersFromLocalStorage.fulfilled and
\* setActiveProviderAndPersist.fulfilled) change no field of the slice other
\* than activeProviders.
C34_ErrorAndLoadingExclusive ==
    /\ [](~(providers.hasErrorLoadingEnabledProviders /\ providers.isLoadingEnabledProviders))
    /\ [][ReducesActiveProviders =>
             providers' = [providers EXCEPT !.activeProviders = providers'.activeProviders]]_vars

\* A load failed, a second one is in flight (the error flag was reset, the
\* loading flag set), and an activeProviders action has just been reduced.
C34_Witness ==
    /\ \E r \in RequestIds : hubRequests[r] = "rejected"
    /\ \E r \in RequestIds : hubRequests[r] = "pending"
    /\ providers.isLoadingEnabledProviders
    /\ lastAction = setActiveFulfilled
    /\ providers.activeProviders # Null

\* ------------------------------------------------------------------ C35
\* The fields of the context the caller supplies through withContext.
CallerInputs(cx) ==
    <<cx.site, cx.baseSite, cx.provider, cx.snapshotID, cx.newSiteName, cx.initialSiteStatus>>
\* The fields the onDone of gettingBackupCredentials assigns.
Credentials(cx) == <<cx.encryptionPassword, cx.backupSiteID, cx.localBackupRepoID>>
\* This step handles the resolution of service src of run c.
ResolvesStep(c, src) == resolvedSteps'[c] = Append(resolvedSteps[c], src)
\* Transfer, filesystem apply, provisioning, database apply, domain rewrite.
PlainSteps == {"restoreBackup", "cloneBackup", "moveSiteFromTmpDir", "provisionSite",
               "importDatabase", "searchReplace"}

\* C35: context frame.  Once a run is started no transition changes the
\* inputs its caller supplied (site or baseSite, provider, snapshot id,
\* newSiteName, initialSiteStatus); encryptionPassword, backupSiteID and
\* localBackupRepoID change only in the transition taken when getCredentials
\* resolves, tmpDirData only in the one taken when createTmpDir resolves;
\* and the transition taken when the transfer, the filesystem apply, the
\* provisioning, the database apply or the domain rewrite resolves leaves
\* the whole context as it was.
C35_ContextFrame ==
    [][\A c \in CallIds :
          Started(c) =>
             /\ CallerInputs(ctx'[c]) = CallerInputs(ctx[c])
             /\ Credentials(ctx'[c]) # Credentials(ctx[c]) => ResolvesStep(c, "getCredentials")
             /\ ctx'[c].tmpDirData # ctx[c].tmpDirData => ResolvesStep(c, "createTmpDir")
             /\ (\E src \in PlainSteps : ResolvesStep(c, src)) => ctx'[c] = ctx[c]]_vars

\* A clone ran through all its steps and a restore through all of its own,
\* each with its inputs, credentials and staging directory on the context.
C35_Witness ==
    \E c, d \in CallIds :
        /\ variantOf[c] = "clone" /\ FinishedRun(c)
        /\ CallerInputs(ctx[c]) = CallerInputs(CloneContext(1, ctx[c].newSiteName))
        /\ Credentials(ctx[c]) = <<"password", "id", "uuid">> /\ ctx[c].tmpDirData = c
        /\ variantOf[d] = "restore" /\ FinishedRun(d)
        /\ CallerInputs(ctx[d]) = CallerInputs(RestoreContext(1, ctx[d].initialSiteStatus))
        /\ Credentials(ctx[d]) = <<"password", "id", "uuid">> /\ ctx[d].tmpDirData = d

====
